---- MODULE Spec2Model ----
(***************************************************************************)
(* Trinity IDE: the request-orchestration workflow of ProjectView          *)
(* (handleSendMessage, approveProposal, the discard controls,              *)
(* copyToClipboard), the gateway TrinityService (conduct, research,        *)
(* validateCode) and the application state of App (projects, active        *)
(* project, activity log).                                                 *)
(*                                                                         *)
(* Conventions of the model:                                               *)
(*  - text the user types is a sequence of one-character strings, so that  *)
(*    String.trim and the research regular expression are computed;        *)
(*  - a file name is the sequence of its "."-separated parts               *)
(*    (<<"utils","ts">> is "utils.ts"), so that split('.').pop() is        *)
(*    computed;                                                            *)
(*  - a model response is the sequence of its ```json fenced blocks, in    *)
(*    order, plus a flag telling whether the text is empty;                *)
(*  - React state setters are modelled as taking effect in call order;     *)
(*    the random id and the timestamp of log entries and messages are     *)
(*    left out (no code reads them).                                       *)
(*  - an await of a gateway call is a suspension point: every handler is   *)
(*    cut into one action per synchronous stretch.                         *)
(***************************************************************************)
EXTENDS Integers, Sequences, FiniteSets, TLC

VARIABLES
    projects,          \* App: useState<Project[]>
    activeProjectId,   \* App: useState<string | null>
    activity,          \* App: useState<ActivityLog[]>
    nextId,            \* source of fresh project ids (Math.random in the code)
    messages,          \* ProjectView: useState<ChatMessage[]>
    inputValue,        \* ProjectView: useState('')
    isProcessing,      \* ProjectView: useState(false)
    pendingProposal,   \* ProjectView: useState<CodeProposal | null>
    validationReport,  \* ProjectView: useState<string | null>
    researchSources,   \* ProjectView: useState<{title, uri}[]>
    pc,                \* where the in-flight handleSendMessage is suspended
    frame,             \* locals of the in-flight handleSendMessage
    trace,             \* history: what the current turn did, in program order
    turnStart,         \* history: lengths of messages/activity and the pending proposal at submission
    turns,             \* history: number of accepted submissions
    copies,            \* history: number of copyToClipboard calls
    systemConfig,      \* App: useState<SystemConfig>
    configChanges,     \* history: number of setSystemConfig calls
    rejected,          \* history: the submissions the guard of handleSendMessage turned away
    thrown             \* history: number of exceptions that left an event handler uncaught

vars == <<projects, activeProjectId, activity, nextId, messages, inputValue,
          isProcessing, pendingProposal, validationReport, researchSources,
          pc, frame, trace, turnStart, turns, copies,
          systemConfig, configChanges, rejected, thrown>>

appVars == <<projects, activeProjectId, activity, nextId>>
viewVars == <<messages, inputValue, isProcessing, pendingProposal,
              validationReport, researchSources>>
turnVars == <<pc, frame, trace, turnStart, turns>>
restVars == <<systemConfig, configChanges, rejected, thrown>>

-----------------------------------------------------------------------------
(* Bounds *)

\* The user actions of a run are charged against MaxCost: a call of
\* handleSendMessage costs 2, whether it starts a turn or turns the
\* submission away; a new project, a copy to the clipboard, a change of the
\* configuration and an approval that throws cost 1 each.  Approvals that
\* run to their end and discards are free (each needs a proposal, hence a
\* submission); typing and selecting a project are free (they add nothing
\* to a list).
MaxCost == 5

-----------------------------------------------------------------------------
(* Values *)

Null == [null |-> TRUE]          \* JavaScript null (pendingProposal, no match)
NullId == 0                      \* activeProjectId === null (project ids start at 1)
NullReport == "null"             \* validationReport === null
Undefined == "undefined"         \* a string-valued field that is undefined
UndefinedName == <<>>            \* data.fileName undefined (split never yields <<>>)

\* Texts the user can have in the input box.
Inputs ==
    { <<>>,
      <<" ">>,
      <<"h", "i">>,
      <<" ", "F", "i", "n", "d">> }

\* A parsed ```json block: JSON.parse throws on it, or yields an object with
\* the fields below (Undefined where a key is absent).
InvalidBlock == [json |-> "invalid"]
ObjectBlock(a, f, c, d) ==
    [json |-> "object", action |-> a, fileName |-> f, content |-> c, description |-> d]

EmptyResponse == [empty |-> TRUE, blocks |-> <<>>]
PlainResponse == [empty |-> FALSE, blocks |-> <<>>]
BlockResponse(bs) == [empty |-> FALSE, blocks |-> bs]

GoodBlocks ==
    { ObjectBlock("propose_code", <<"utils", "ts">>, "c1", "d1"),
      ObjectBlock("propose_code", <<"utils", "ts">>, "c2", "d1") }

IncompleteBlocks ==
    { ObjectBlock("propose_code", UndefinedName, "c1", "d1"),
      ObjectBlock("propose_code", <<"README">>, Undefined, Undefined) }

\* What generateContent(...).text can be for the conduct call.
Responses ==
    { EmptyResponse, PlainResponse }
    \cup { BlockResponse(<<b>>) : b \in GoodBlocks \cup IncompleteBlocks }
    \cup { BlockResponse(<<ObjectBlock("chat", <<"utils", "ts">>, "c1", "d1")>>),
           BlockResponse(<<InvalidBlock, ObjectBlock("propose_code", <<"README">>, "c1", "d1")>>) }

\* What generateContent(...).text can be for the validateCode call.
Reports == { "report1" }
\* Grounding sources a research call can return.
SourceLists == { <<"src1">> }
ResearchTexts == { "findings" }

ResearchPlaceholder ==
    "Research swarm was unable to reach the web. Proceeding with internal knowledge base."
ValidationPlaceholder ==
    "Validation node timed out. Manual review highly recommended."
EmptyResponsePlaceholder == "Cluster returned empty response."
NoFilesYet == [placeholder |-> "No files yet."]

-----------------------------------------------------------------------------
(* Pure functions *)

IsWhitespace(c) == c = " "

RECURSIVE TrimStart(_)
TrimStart(s) ==
    IF s = <<>> THEN <<>>
    ELSE IF IsWhitespace(Head(s)) THEN TrimStart(Tail(s)) ELSE s

RECURSIVE TrimEnd(_)
TrimEnd(s) ==
    IF s = <<>> THEN <<>>
    ELSE IF IsWhitespace(s[Len(s)]) THEN TrimEnd(SubSeq(s, 1, Len(s) - 1)) ELSE s

\* String.prototype.trim
Trim(s) == TrimEnd(TrimStart(s))

\* case folding of the /i flag, over the letters the inputs use
LowerChar(c) == IF c = "F" THEN "f" ELSE c

Lower(s) == [i \in 1..Len(s) |-> LowerChar(s[i])]

Contains(s, pat) ==
    \E i \in 1..(Len(s) - Len(pat) + 1) : SubSeq(s, i, i + Len(pat) - 1) = pat

ResearchKeywords ==
    { <<"r", "e", "s", "e", "a", "r", "c", "h">>,
      <<"s", "e", "a", "r", "c", "h">>,
      <<"f", "i", "n", "d">>,
      <<"d", "o", "c", "u", "m", "e", "n", "t", "a", "t", "i", "o", "n">>,
      <<"i", "n", "f", "o">>,
      <<"w", "h", "o", " ", "i", "s">>,
      <<"w", "h", "a", "t", " ", "i", "s">> }

\* /research|search|find|documentation|info|who is|what is/i.test(inputValue)
NeedsResearch(s) == \E k \in ResearchKeywords : Contains(Lower(s), k)

\* fileName.split('.').pop() || 'txt'
Language(fileName) ==
    IF fileName[Len(fileName)] = "" THEN "txt" ELSE fileName[Len(fileName)]

\* project.files.map(f => f.name).join(', ') || 'No files yet.'
FilesContext(files) ==
    LET names == [i \in 1..Len(files) |-> files[i].name]
    IN  IF names = <<>> \/ names = << <<"">> >> THEN NoFilesYet ELSE [names |-> names]

\* response?.match(/```json\n([\s\S]*?)\n```/): the first fenced block, if any
JsonMatch(response) ==
    IF response.blocks = <<>> THEN Null ELSE Head(response.blocks)

\* Lines 70-97 of handleSendMessage up to the validateCode call: the proposal
\* the response carries, or Null (no block, JSON.parse threw,
\* or the action is not 'propose_code').
ParseProposal(response) ==
    LET jsonMatch == JsonMatch(response)
    IN  IF jsonMatch = Null THEN Null
        ELSE IF jsonMatch.json = "invalid" THEN Null
        ELSE IF jsonMatch.action = "propose_code"
             THEN [fileName |-> jsonMatch.fileName,
                   content |-> jsonMatch.content,
                   description |-> jsonMatch.description]
             ELSE Null

\* a findIndex that never finds
FindIndex_NotFound(files, name) == 0

\* findIndex(f => f.name === name): 0 stands for -1
FindIndex(files, name) ==
    IF \E i \in 1..Len(files) : files[i].name = name
    THEN CHOOSE i \in 1..Len(files) :
            /\ files[i].name = name
            /\ \A j \in 1..(i - 1) : files[j].name # name
    ELSE 0

LogEntry(agent, type, message) == [agent |-> agent, type |-> type, message |-> message]

\* a user message that carries the trimmed input
UserMsg_Trimmed(content) == [role |-> "user", content |-> Trim(content)]

\* Lines 43-47
UserMsg(content) == [role |-> "user", content |-> content]
SystemMsg(fileName) == [role |-> "system", content |-> [integrated |-> fileName]]
\* an assistant message that never carries the proposal
AssistantMsg_NoChange(response, proposal) ==
    LET content == IF response.empty THEN [text |-> EmptyResponsePlaceholder] ELSE response
    IN  [role |-> "assistant", content |-> content]

\* an assistant message that always carries the response as it came
AssistantMsg_Raw(response, proposal) ==
    IF proposal = Null
    THEN [role |-> "assistant", content |-> response]
    ELSE [role |-> "assistant", content |-> response, pendingChange |-> proposal]

AssistantMsg(response, proposal) ==
    LET content == IF response.empty THEN [text |-> EmptyResponsePlaceholder] ELSE response
    IN  IF proposal = Null
        THEN [role |-> "assistant", content |-> content]
        ELSE [role |-> "assistant", content |-> content, pendingChange |-> proposal]

ActiveProject ==
    IF \E i \in 1..Len(projects) : projects[i].id = activeProjectId
    THEN projects[CHOOSE i \in 1..Len(projects) : projects[i].id = activeProjectId]
    ELSE Null

NoFrame == [idle |-> TRUE]
NoTurn == [idle |-> TRUE]

\* what the run has been charged so far
Cost == 2 * (turns + Len(rejected)) + Len(projects) + copies + configChanges + thrown

-----------------------------------------------------------------------------
(* Initial state: App and ProjectView as constructed by useState *)

Init ==
    /\ projects = <<>>
    /\ activeProjectId = NullId
    /\ activity = <<>>
    /\ nextId = 1
    /\ messages = <<>>
    /\ inputValue = <<>>
    /\ isProcessing = FALSE
    /\ pendingProposal = Null
    /\ validationReport = NullReport
    /\ researchSources = <<>>
    /\ pc = "idle"
    /\ frame = NoFrame
    /\ trace = <<>>
    /\ turnStart = NoTurn
    /\ turns = 0
    /\ copies = 0
    /\ systemConfig = [conductorModel |-> "gemini-3-pro-preview"]
    /\ configChanges = 0
    /\ rejected = <<>>
    /\ thrown = 0

-----------------------------------------------------------------------------
(* App *)

UpperChar(c) == IF c = "p" THEN "P" ELSE c
\* String.prototype.toUpperCase
ToUpperCase(s) == [i \in 1..Len(s) |-> UpperChar(s[i])]

\* What the user can answer to prompt("Designate project identifier:");
\* <<>> stands for both a cancelled prompt (null) and the empty string.
ProjectNames == { <<>>, <<"p">> }

\* a log kept newest first: setActivity(prev => [log, ...prev])
addLog_Prepend(log, entry) == << entry >> \o log

\* addLog: setActivity(prev => [...prev, log])
addLog(log, entry) == Append(log, entry)

\* entries written last first
addLogs_Reversed(log, entries) ==
    log \o [i \in 1..Len(entries) |-> entries[Len(entries) + 1 - i]]

\* addLog applied to each entry of a sequence, in order
addLogs(log, entries) == log \o entries

\* updateProject: setProjects(prev => prev.map(p => p.id === updated.id ? updated : p))
updateProject(ps, updatedProject) ==
    [i \in 1..Len(ps) |-> IF ps[i].id = updatedProject.id THEN updatedProject ELSE ps[i]]

\* a new project that replaces the project list: setProjects([newProject])
handleNewProject_Replace(name) ==
    /\ Cost + 1 <= MaxCost
    /\ IF name = <<>>
       THEN UNCHANGED appVars
       ELSE LET newProject == [id |-> nextId, name |-> ToUpperCase(name), files |-> <<>>]
            IN  /\ projects' = << newProject >>
                /\ activeProjectId' = newProject.id
                /\ nextId' = nextId + 1
                /\ activity' = addLog(activity,
                                      LogEntry("Conductor", "success", "Project workspace initialized"))
    /\ UNCHANGED <<viewVars, turnVars, copies, restVars>>

handleNewProject(name) ==
    /\ Cost + 1 <= MaxCost
    /\ IF name = <<>>
       THEN UNCHANGED appVars
       ELSE LET newProject == [id |-> nextId, name |-> ToUpperCase(name), files |-> <<>>]
            IN  /\ projects' = Append(projects, newProject)
                /\ activeProjectId' = newProject.id
                /\ nextId' = nextId + 1
                /\ activity' = addLog(activity,
                                      LogEntry("Conductor", "success", "Project workspace initialized"))
    /\ UNCHANGED <<viewVars, turnVars, copies, restVars>>

\* a ProjectView keyed by the project: selecting mounts a fresh chat
onSelectProject_Remount(id) ==
    /\ \E i \in 1..Len(projects) : projects[i].id = id
    /\ activeProjectId' = id
    /\ messages' = <<>>
    /\ UNCHANGED <<projects, activity, nextId, inputValue, isProcessing, pendingProposal,
                   validationReport, researchSources, turnVars, copies, restVars>>

\* Sidebar: onClick={() => onSelectProject(project.id)}
onSelectProject(id) ==
    /\ \E i \in 1..Len(projects) : projects[i].id = id
    /\ activeProjectId' = id
    /\ UNCHANGED <<projects, activity, nextId, viewVars, turnVars, copies, restVars>>

\* the conductor models the settings panel offers
ConductorModels == { "gemini-3-pro-preview", "gemini-3-flash-preview" }

\* Settings: (val) => setSystemConfig({...systemConfig, conductorModel: val})
setSystemConfig(val) ==
    /\ val \in ConductorModels
    /\ val # systemConfig.conductorModel
    /\ Cost + 1 <= MaxCost
    /\ systemConfig' = [systemConfig EXCEPT !.conductorModel = val]
    /\ configChanges' = configChanges + 1
    /\ UNCHANGED <<appVars, viewVars, turnVars, copies, rejected, thrown>>

-----------------------------------------------------------------------------
(* ProjectView: rendered only while there is an active project *)

Mounted == ActiveProject # Null

\* onChange={(e) => setInputValue(e.target.value)}
setInputValue(s) ==
    /\ Mounted
    /\ inputValue' = s
    /\ UNCHANGED <<appVars, messages, isProcessing, pendingProposal,
                   validationReport, researchSources, turnVars, copies, restVars>>

copyToClipboard ==
    /\ Mounted
    /\ ActiveProject.files # <<>>
    /\ Cost + 1 <= MaxCost
    /\ copies' = copies + 1
    /\ activity' = addLog(activity,
                          LogEntry("System", "info", "Source code copied to clipboard successfully."))
    /\ UNCHANGED <<projects, activeProjectId, nextId, viewVars, turnVars, restVars>>

-----------------------------------------------------------------------------
(* TrinityService: what each method logs around its gateway call *)

\* conduct, lines 22-28: the entry written before the call
conductStart == LogEntry("Conductor", "info", "Initiating orchestration")
\* a conduct that rethrows without logging
conductCatch_Silent == <<>>

\* conduct, lines 66-75: the entries written by its catch before it rethrows
conductCatch == << LogEntry("Conductor", "error", "API Exception") >>
\* research, lines 80-86
researchStart == LogEntry("Research Lead", "info", "Triggering technical search grounding")
\* research, lines 97-103
researchSuccess == LogEntry("Specialized Researcher", "success", "Grounding complete. Key findings identified.")
\* research, lines 111-113: the value its catch returns
researchCatch == [text |-> ResearchPlaceholder, sources |-> <<>>]
\* validateCode, lines 118-124
validateCodeStart == LogEntry("Validator", "info", "Performing logical validation on generated artifacts...")
\* validateCode, lines 134-136: the value its catch returns
validateCodeCatch == ValidationPlaceholder

\* handleSendMessage, lines 109-116: the entries written by its catch
handleSendMessageCatch == << LogEntry("Conductor", "error", "Cluster Error") >>
\* a completion entry of the wrong severity
artifactCheckComplete_Info == LogEntry("Validator", "info", "Artifact check complete. Health: OPTIMAL.")

\* handleSendMessage, lines 86-92
artifactCheckComplete == LogEntry("Validator", "success", "Artifact check complete. Health: OPTIMAL.")

\* the trace event of a log entry
Logged(entry) == [ev |-> "log", entry |-> entry]
\* the trace event of anything else the turn does
Did(what) == [ev |-> what]
\* the trace event of conduct handing its response to handleSendMessage
Returned(response) == [ev |-> "conduct returned", response |-> response]

-----------------------------------------------------------------------------
(* handleSendMessage, one action per synchronous stretch *)

\* a conduct call that summarises the files the project has when it is made
ConductContext_Fresh(locals, currentFiles) == FilesContext(currentFiles)

\* Line 68: the contextSummary conduct is called with is the filesContext
\* computed at line 55
ConductContext(locals, currentFiles) == locals.filesContext

\* a handler that never consults the research team
FirstCall_NoResearch(needsResearch) ==
    [pc |-> "conduct", log |-> conductStart, call |-> "call conduct"]

\* Lines 61-68: the gateway method handleSendMessage calls first, the entry
\* that method logs before its call, and the call
FirstCall(needsResearch) ==
    IF needsResearch
    THEN [pc |-> "research", log |-> researchStart, call |-> "call research"]
    ELSE [pc |-> "conduct", log |-> conductStart, call |-> "call conduct"]

\* a guard that does not trim the input
Rejects_NoTrim(input, processing) == input = <<>> \/ processing

\* a guard that does not look at isProcessing
Rejects_NoGate(input, processing) == Trim(input) = <<>>

\* Line 41: if (!inputValue.trim() || isProcessing) return;
Rejects(input, processing) == Trim(input) = <<>> \/ processing

\* Lines 40-68 up to the first await: the guard, the user message, the
\* resets, the files summary, the research heuristic and the start of
\* research or of conduct.
handleSendMessage ==
    /\ Mounted
    /\ Cost + 2 <= MaxCost
    /\ IF Rejects(inputValue, isProcessing)
       THEN /\ rejected' = Append(rejected, [inputValue |-> inputValue,
                                             isProcessing |-> isProcessing])
            /\ UNCHANGED <<messages, inputValue, isProcessing, validationReport,
                           activity, turnVars>>
       ELSE /\ LET filesContext == FilesContext(ActiveProject.files)
                   needsResearch == NeedsResearch(inputValue)
                   first == FirstCall(needsResearch)
               IN  /\ messages' = Append(messages, UserMsg(inputValue))
                   /\ inputValue' = <<>>
                   /\ isProcessing' = TRUE
                   /\ validationReport' = NullReport
                   /\ activity' = addLog(activity, first.log)
                   /\ pc' = first.pc
                   /\ frame' = LET locals == [inputValue |-> inputValue,
                                              filesContext |-> filesContext,
                                              augmentedPrompt |-> [request |-> inputValue],
                                              contextSummary |-> Null,
                                              response |-> Null,
                                              proposal |-> Null]
                               IN  IF first.pc = "conduct"
                                   THEN [locals EXCEPT !.contextSummary =
                                            ConductContext(locals, ActiveProject.files)]
                                   ELSE locals
                   /\ trace' = << Did("userMsg"), Logged(first.log), Did(first.call) >>
            /\ turnStart' = [messages |-> Len(messages), activity |-> Len(activity),
                             pendingProposal |-> pendingProposal]
            /\ turns' = turns + 1
            /\ UNCHANGED rejected
    /\ UNCHANGED <<projects, activeProjectId, nextId, pendingProposal, researchSources,
                   copies, systemConfig, configChanges, thrown>>

\* Lines 62-68 after research settled with result: the sources are spliced
\* in front, the prompt is augmented, and conduct starts.
AfterResearch(result, events, outcome) ==
    /\ researchSources' = result.sources \o researchSources
    /\ frame' = [frame EXCEPT !.augmentedPrompt =
                                  [findings |-> result.text, request |-> frame.inputValue],
                              !.contextSummary = ConductContext(frame, ActiveProject.files)]
    /\ pc' = "conduct"
    /\ activity' = addLogs(activity, events \o <<conductStart>>)
    /\ trace' = trace \o (IF outcome = "research resolved" THEN << Did(outcome) >> ELSE <<>>)
                      \o [i \in 1..Len(events) |-> Logged(events[i])]
                      \o (IF outcome = "research threw" THEN << Did(outcome) >> ELSE <<>>)
                      \o << Did("research returned"), Logged(conductStart), Did("call conduct") >>
    /\ UNCHANGED <<projects, activeProjectId, nextId, messages, inputValue, isProcessing,
                   pendingProposal, validationReport, turnStart, turns, copies, restVars>>

\* research: generateContent resolved
researchResolved(text, sources) ==
    /\ pc = "research"
    /\ AfterResearch([text |-> text, sources |-> sources], <<researchSuccess>>, "research resolved")

\* a research without a catch: the rejection reaches the catch of
\* handleSendMessage, which logs and ends the turn
researchRejected_Abort ==
    /\ pc = "research"
    /\ activity' = addLogs(activity, handleSendMessageCatch)
    /\ isProcessing' = FALSE
    /\ pc' = "idle"
    /\ frame' = NoFrame
    /\ trace' = trace \o << Did("research threw"), Logged(handleSendMessageCatch[1]) >>
    /\ UNCHANGED <<projects, activeProjectId, nextId, messages, inputValue, pendingProposal,
                   validationReport, researchSources, turnStart, turns, copies, restVars>>

\* research: generateContent rejected
researchRejected ==
    /\ pc = "research"
    /\ AfterResearch(researchCatch, <<>>, "research threw")

\* a turn that keeps the proposal that is already pending
FinishTurn_KeepPending(response, proposal, events) ==
    /\ messages' = Append(messages, AssistantMsg(response, proposal))
    /\ pendingProposal' = IF pendingProposal # Null THEN pendingProposal ELSE proposal
    /\ isProcessing' = FALSE
    /\ pc' = "idle"
    /\ frame' = NoFrame
    /\ trace' = trace \o events
                      \o << Did("assistantMsg") >>
                      \o (IF proposal # Null THEN << Did("setPendingProposal") >> ELSE <<>>)

\* Lines 99-119: the assistant message, the pending proposal, finally.
FinishTurn(response, proposal, events) ==
    /\ messages' = Append(messages, AssistantMsg(response, proposal))
    /\ pendingProposal' = IF proposal # Null THEN proposal ELSE pendingProposal
    /\ isProcessing' = FALSE
    /\ pc' = "idle"
    /\ frame' = NoFrame
    /\ trace' = trace \o events
                      \o << Did("assistantMsg") >>
                      \o (IF proposal # Null THEN << Did("setPendingProposal") >> ELSE <<>>)

\* conduct: generateContent resolved with response; lines 70-83 or 70-119
conductResolved(response) ==
    /\ pc = "conduct"
    /\ LET proposal == ParseProposal(response)
       IN  IF proposal # Null
           THEN /\ activity' = addLog(activity, validateCodeStart)
                /\ pc' = "validate"
                /\ frame' = [frame EXCEPT !.response = response, !.proposal = proposal]
                /\ trace' = trace \o << Did("conduct resolved"), Returned(response),
                                        Logged(validateCodeStart), Did("call validateCode") >>
                /\ UNCHANGED <<messages, pendingProposal, isProcessing>>
           ELSE /\ FinishTurn(response, Null, << Did("conduct resolved"), Returned(response) >>)
                /\ UNCHANGED activity
    /\ UNCHANGED <<projects, activeProjectId, nextId, inputValue, validationReport,
                   researchSources, turnStart, turns, copies, restVars>>

\* a failed turn that still appends an assistant message
conductRejected_Partial ==
    /\ pc = "conduct"
    /\ activity' = addLogs(activity, conductCatch \o handleSendMessageCatch)
    /\ messages' = Append(messages, AssistantMsg(EmptyResponse, Null))
    /\ isProcessing' = FALSE
    /\ pc' = "idle"
    /\ frame' = NoFrame
    /\ trace' = trace \o << Did("conduct threw") >>
                      \o [i \in 1..Len(conductCatch \o handleSendMessageCatch) |->
                             Logged((conductCatch \o handleSendMessageCatch)[i])]
    /\ UNCHANGED <<projects, activeProjectId, nextId, inputValue, pendingProposal,
                   validationReport, researchSources, turnStart, turns, copies, restVars>>

\* a handler without the finally: a failed conduct leaves isProcessing set
conductRejected_NoFinally ==
    /\ pc = "conduct"
    /\ activity' = addLogs(activity, conductCatch \o handleSendMessageCatch)
    /\ pc' = "idle"
    /\ frame' = NoFrame
    /\ trace' = trace \o << Did("conduct threw") >>
                      \o [i \in 1..Len(conductCatch \o handleSendMessageCatch) |->
                             Logged((conductCatch \o handleSendMessageCatch)[i])]
    /\ UNCHANGED <<projects, activeProjectId, nextId, messages, inputValue, isProcessing,
                   pendingProposal, validationReport, researchSources, turnStart, turns,
                   copies, restVars>>

\* conduct: generateContent rejected; conduct logs and rethrows, the catch
\* of handleSendMessage logs, finally resets isProcessing
conductRejected ==
    /\ pc = "conduct"
    /\ activity' = addLogs(activity, conductCatch \o handleSendMessageCatch)
    /\ isProcessing' = FALSE
    /\ pc' = "idle"
    /\ frame' = NoFrame
    /\ trace' = trace \o << Did("conduct threw") >>
                      \o [i \in 1..Len(conductCatch \o handleSendMessageCatch) |->
                             Logged((conductCatch \o handleSendMessageCatch)[i])]
    /\ UNCHANGED <<projects, activeProjectId, nextId, messages, inputValue, pendingProposal,
                   validationReport, researchSources, turnStart, turns, copies, restVars>>

\* Lines 83-119 after validateCode settled with report
AfterValidateCode(report, outcome) ==
    /\ pc = "validate"
    /\ validationReport' = report
    /\ activity' = addLog(activity, artifactCheckComplete)
    /\ FinishTurn(frame.response, frame.proposal,
                  << Did(outcome), Did("validateCode returned"), Did("setValidationReport"),
                     Logged(artifactCheckComplete) >>)
    /\ UNCHANGED <<projects, activeProjectId, nextId, inputValue, researchSources,
                   turnStart, turns, copies, restVars>>

\* validateCode: generateContent resolved
validateCodeResolved(report) == AfterValidateCode(report, "validateCode resolved")

\* validateCode: generateContent rejected
validateCodeRejected == AfterValidateCode(validateCodeCatch, "validateCode threw")

-----------------------------------------------------------------------------
(* The Integration Checkpoint modal: rendered while pendingProposal is set *)

\* an approval that always adds a file
UpsertFile_AlwaysPush(files, newFile) == Append(files, newFile)

\* Lines 124-132: the file list after the upsert of newFile
UpsertFile(files, newFile) ==
    LET existingFileIndex == FindIndex(files, newFile.name)
    IN  IF existingFileIndex >= 1
        THEN [files EXCEPT ![existingFileIndex] = newFile]
        ELSE Append(files, newFile)

\* Lines 122-150. A proposal whose fileName is undefined makes line 129
\* throw a TypeError before anything is written.
approveProposal ==
    /\ Mounted
    /\ pendingProposal # Null
    /\ IF pendingProposal.fileName = UndefinedName
       THEN /\ Cost + 1 <= MaxCost
            /\ thrown' = thrown + 1
            /\ UNCHANGED <<appVars, viewVars>>
       ELSE LET project == ActiveProject
                newFile == [name |-> pendingProposal.fileName,
                            content |-> pendingProposal.content,
                            language |-> Language(pendingProposal.fileName)]
                updatedFiles == UpsertFile(project.files, newFile)
            IN  /\ projects' = updateProject(projects, [project EXCEPT !.files = updatedFiles])
                /\ messages' = Append(messages, SystemMsg(pendingProposal.fileName))
                /\ pendingProposal' = Null
                /\ validationReport' = NullReport
                /\ activity' = addLog(activity,
                                      LogEntry("Validator", "success", "Persisted to workspace."))
                /\ UNCHANGED <<activeProjectId, nextId, inputValue, isProcessing,
                               researchSources, thrown>>
    /\ UNCHANGED <<turnVars, copies, systemConfig, configChanges, rejected>>

\* The two controls that discard: the close button (line 384) and
\* "Discard Artifact" (line 426)
DiscardControls == { "close", "Discard Artifact" }

\* a discard that reports itself to the log
discardProposal_Logged(control) ==
    /\ Mounted
    /\ pendingProposal # Null
    /\ control \in DiscardControls
    /\ pendingProposal' = Null
    /\ activity' = addLog(activity, LogEntry("System", "info", "Artifact discarded."))
    /\ UNCHANGED <<projects, activeProjectId, nextId, messages, inputValue, isProcessing,
                   validationReport, researchSources, turnVars, copies, restVars>>

\* onClick={() => setPendingProposal(null)}
discardProposal(control) ==
    /\ Mounted
    /\ pendingProposal # Null
    /\ control \in DiscardControls
    /\ pendingProposal' = Null
    /\ UNCHANGED <<appVars, messages, inputValue, isProcessing, validationReport,
                   researchSources, turnVars, copies, restVars>>

-----------------------------------------------------------------------------

Next ==
    \/ \E name \in ProjectNames : handleNewProject(name)
    \/ \E i \in 1..Len(projects) : onSelectProject(projects[i].id)
    \/ \E val \in ConductorModels : setSystemConfig(val)
    \/ \E s \in Inputs : setInputValue(s)
    \/ copyToClipboard
    \/ handleSendMessage
    \/ \E text \in ResearchTexts, sources \in SourceLists : researchResolved(text, sources)
    \/ researchRejected
    \/ \E response \in Responses : conductResolved(response)
    \/ conductRejected
    \/ \E report \in Reports : validateCodeResolved(report)
    \/ validateCodeRejected
    \/ approveProposal
    \/ \E control \in DiscardControls : discardProposal(control)

Spec == Init /\ [][Next]_vars

-----------------------------------------------------------------------------
(* Helpers of the properties *)

\* what has been appended to the log, and to the chat, since the last submission
TurnLog == SubSeq(activity, turnStart.activity + 1, Len(activity))
TurnMessages == SubSeq(messages, turnStart.messages + 1, Len(messages))

IsConductorError(entry) == entry.agent = "Conductor" /\ entry.type = "error"

\* the current turn did what
TraceHas(what) == \E i \in 1..Len(trace) : trace[i] = Did(what)

\* the last turn has ended, and it ended because conduct threw
ConductFailedTurn == pc = "idle" /\ TraceHas("conduct threw")

-----------------------------------------------------------------------------
(* C1 *)

\* C1 as stated: a turn whose conduct call failed has appended exactly one
\* error-severity "Conductor" entry to the log.
C1_ExactlyOneConductorError ==
    ConductFailedTurn => Len(SelectSeq(TurnLog, IsConductorError)) = 1

\* C1 amended: a turn whose conduct call failed has appended exactly two
\* error-severity "Conductor" entries to the log: "API Exception" written by
\* TrinityService.conduct, then "Cluster Error" written by handleSendMessage.
C1_TwoConductorErrors ==
    ConductFailedTurn =>
        SelectSeq(TurnLog, IsConductorError) =
            << LogEntry("Conductor", "error", "API Exception"),
               LogEntry("Conductor", "error", "Cluster Error") >>

\* a turn has ended on a failed conduct call
C1_Witness == ConductFailedTurn /\ Len(TurnLog) >= 3

-----------------------------------------------------------------------------
(* C2 *)

\* a click on one of the two discard controls
DiscardStep == \E control \in DiscardControls : discardProposal(control)

\* C2 as stated: a discard clears the pending proposal and the validation
\* report and leaves messages, log, projects, research sources and
\* isProcessing as they were.
C2_DiscardClearsBoth ==
    [][DiscardStep =>
        /\ pendingProposal' = Null
        /\ validationReport' = NullReport
        /\ UNCHANGED <<messages, activity, projects, researchSources, isProcessing>>]_vars

-----------------------------------------------------------------------------
(* C3 *)

\* proposal has its three fields
Complete(proposal) ==
    /\ proposal.fileName # UndefinedName
    /\ proposal.content # Undefined
    /\ proposal.description # Undefined

HasPendingChange(message) == "pendingChange" \in DOMAIN message

\* C3 as stated: a propose_code block that lacks fileName, content or
\* description yields no proposal, so no incomplete proposal is ever sent to
\* validateCode, attached to an assistant message or made pending.
C3_IncompleteBlockYieldsNoProposal ==
    /\ pc = "validate" => Complete(frame.proposal)
    /\ pendingProposal # Null => Complete(pendingProposal)
    /\ \A i \in 1..Len(messages) :
          HasPendingChange(messages[i]) => Complete(messages[i].pendingChange)

-----------------------------------------------------------------------------
(* C4 *)

\* the files of the project id in the project list ps
FilesOf(ps, id) == ps[CHOOSE i \in 1..Len(ps) : ps[i].id = id].files

\* approveProposal ran to its end (it did not throw)
ApproveStep == approveProposal /\ messages' # messages

IsSystemMsg(message) == message.role = "system"

-----------------------------------------------------------------------------
(* C5 *)

\* a turn ends with a proposal while another proposal is pending
ReplaceStep == pendingProposal # Null /\ pc = "validate" /\ pc' = "idle"

\* C5: there is one pending-proposal slot; a turn that produces a proposal
\* while another is pending puts the new proposal in the slot and leaves the
\* files of every project unchanged.
C5_NewProposalReplacesPending ==
    [][ReplaceStep =>
        /\ pendingProposal' = frame.proposal
        /\ pendingProposal' = messages'[Len(messages')].pendingChange
        /\ projects' = projects]_vars

\* a turn has ended with a proposal that differs from the one that was
\* pending when the turn was submitted
C5_Witness ==
    /\ pc = "idle"
    /\ turnStart # NoTurn
    /\ turnStart.pendingProposal # Null
    /\ TraceHas("setPendingProposal")
    /\ pendingProposal # Null
    /\ pendingProposal # turnStart.pendingProposal

-----------------------------------------------------------------------------
(* C6 *)

IsUserMsg(message) == message.role = "user"

IsCall(event) ==
    event \in { Did("call research"), Did("call conduct"), Did("call validateCode") }

\* the positions of the history tr that hold an event satisfying Test
PositionsIn(tr, Test(_)) == { i \in 1..Len(tr) : Test(tr[i]) }
Positions(Test(_)) == PositionsIn(trace, Test)

IsUserMsgEvent(event) == event = Did("userMsg")

\* C6: once a submission has been accepted, the chat holds, since that
\* submission, exactly one user message; it is the first message of the
\* turn, it carries the accepted input (which is not blank), and the turn
\* appended it before it issued any gateway call.
C6_OneUserMessageBeforeAnyCall ==
    turnStart # NoTurn =>
        /\ SelectSeq(TurnMessages, IsUserMsg) = << TurnMessages[1] >>
        /\ Trim(TurnMessages[1].content) # <<>>
        /\ pc # "idle" => TurnMessages[1].content = frame.inputValue
        /\ Positions(IsUserMsgEvent) = {1}
        /\ \A i \in Positions(IsCall) : i > 1

\* a turn submitted with an input that has leading white space is waiting
\* for its first gateway call
C6_Witness ==
    /\ pc = "research"
    /\ Positions(IsCall) # {}
    /\ Trim(frame.inputValue) # frame.inputValue

-----------------------------------------------------------------------------
(* C7 *)

IsResearchCall(event) == event = Did("call research")
IsResearchReturn(event) == event = Did("research returned")
IsConductCall(event) == event = Did("call conduct")

\* C7: a turn whose input matches the research heuristic makes exactly one
\* research call, and that call has returned before the conduct call is
\* issued; a turn whose input does not match makes no research call.
C7_ResearchBeforeConduct ==
    turnStart # NoTurn =>
        IF NeedsResearch(TurnMessages[1].content)
        THEN /\ Cardinality(Positions(IsResearchCall)) = 1
             /\ Cardinality(Positions(IsResearchReturn)) <= 1
             /\ \A c \in Positions(IsConductCall) :
                   \E q \in Positions(IsResearchCall), r \in Positions(IsResearchReturn) :
                       q < r /\ r < c
             /\ pc = "research" <=> Positions(IsResearchReturn) = {}
        ELSE /\ Positions(IsResearchCall) = {}
             /\ pc # "research"

\* a turn that researched is waiting for conduct, and a turn that did not
\* need research has been seen as well (the first turn's input is still in
\* the chat)
C7_Witness ==
    /\ pc = "conduct"
    /\ Positions(IsResearchReturn) # {}
    /\ Len(messages) >= 3
    /\ ~NeedsResearch(messages[1].content)

-----------------------------------------------------------------------------
(* C8 *)

\* a parsed block that is a propose_code object with its three fields
WellFormedBlock(block) ==
    /\ block.json = "object"
    /\ block.action = "propose_code"
    /\ block.fileName # UndefinedName
    /\ block.content # Undefined
    /\ block.description # Undefined

ProposalOf(block) ==
    [fileName |-> block.fileName, content |-> block.content, description |-> block.description]

\* the well-formed propose_code blocks of a response, in order
WellFormedBlocks(response) == SelectSeq(response.blocks, WellFormedBlock)

\* the first fenced block of a response, if it is a well-formed propose_code block
FirstWellFormedBlock(response) ==
    IF response.blocks # <<>> /\ WellFormedBlock(response.blocks[1])
    THEN << response.blocks[1] >>
    ELSE <<>>

IsValidateCall(event) == event = Did("call validateCode")
IsValidateReturn(event) == event = Did("validateCode returned")

\* conduct returns a response: the step after which the response is in the
\* frame (validateCode is called) or in the assistant message (the turn ends)
ConductResolvedStep ==
    /\ pc = "conduct"
    /\ pc' # "conduct"
    /\ \E i \in 1..Len(trace') : trace'[i] = Did("conduct resolved")

\* the response conduct returned in a ConductResolvedStep
ResolvedResponse ==
    IF pc' = "validate" THEN frame'.response
    ELSE IF messages'[Len(messages')].content = [text |-> EmptyResponsePlaceholder]
         THEN EmptyResponse
         ELSE messages'[Len(messages')].content

\* the turn ends
TurnEndStep == pc # "idle" /\ pc' = "idle"

\* the turn ends with the return of validateCode
ValidateReturnStep == pc = "validate" /\ pc' = "idle"

\* What C8 says of a turn, given which blocks of a response count as "the
\* well-formed propose_code block of the response".
C8_Steps(Blocks(_)) ==
    /\ (ConductResolvedStep /\ Blocks(ResolvedResponse) # <<>>) =>
          /\ pc' = "validate"
          /\ Cardinality(PositionsIn(trace', IsValidateCall)) = 1
    /\ (ValidateReturnStep /\ Blocks(frame.response) # <<>>) =>
          /\ Cardinality(PositionsIn(trace', IsValidateCall)) = 1
          /\ Cardinality(PositionsIn(trace', IsValidateReturn)) = 1
          /\ Len(activity') = Len(activity) + 1
          /\ activity'[Len(activity')].agent = "Validator"
          /\ activity'[Len(activity')].type = "success"
          /\ pendingProposal' = ProposalOf(Blocks(frame.response)[1])
    /\ (TurnEndStep /\ ~(messages' # messages /\ HasPendingChange(messages'[Len(messages')]))) =>
          PositionsIn(trace', IsValidateCall) = {}

\* C8 as stated: in every turn whose response contains a well-formed
\* propose_code block, validateCode is called exactly once, one
\* success-severity "Validator" entry is appended after it returns and the
\* pending proposal at the end of the turn is that block's
\* fileName/content/description; in every turn without a proposal
\* validateCode is never called.
C8_AnyWellFormedBlockIsValidated == [][C8_Steps(WellFormedBlocks)]_vars

\* C8 amended: the same, for every turn whose response has a well-formed
\* propose_code block as its first fenced json block.
C8_FirstWellFormedBlockIsValidated == [][C8_Steps(FirstWellFormedBlock)]_vars

\* a turn whose response began with a well-formed block has ended with that
\* proposal pending, after a validation that resolved
C8_Witness ==
    /\ pc = "idle"
    /\ TraceHas("validateCode resolved")
    /\ pendingProposal # Null
    /\ Complete(pendingProposal)
    /\ validationReport \in Reports

-----------------------------------------------------------------------------
(* C9 *)

IsAssistantMsg(message) == message.role = "assistant"

\* the turn ends because conduct threw
ConductFailedStep ==
    /\ pc = "conduct"
    /\ pc' = "idle"
    /\ \E i \in 1..Len(trace') : trace'[i] = Did("conduct threw")

\* C9: when the conduct call of a turn fails, the step that ends the turn
\* appends no message and leaves the pending proposal as it is, and the
\* whole turn has appended no assistant message and has not set the pending
\* proposal.
C9_FailedConductLeavesChatAndProposal ==
    [][ConductFailedStep =>
        /\ messages' = messages
        /\ pendingProposal' = pendingProposal
        /\ SelectSeq(SubSeq(messages', turnStart.messages + 1, Len(messages')),
                     IsAssistantMsg) = <<>>
        /\ \A i \in 1..Len(trace') :
              trace'[i] \notin { Did("assistantMsg"), Did("setPendingProposal") }]_vars

\* a turn submitted while a proposal was pending has failed in conduct, and
\* that proposal is still pending
C9_Witness ==
    /\ ConductFailedTurn
    /\ turnStart.pendingProposal # Null
    /\ pendingProposal = turnStart.pendingProposal

-----------------------------------------------------------------------------
(* C10 *)

\* the research call of the turn fails
ResearchFailedStep ==
    /\ pc = "research"
    /\ pc' # "research"
    /\ \E i \in 1..Len(trace') : trace'[i] = Did("research threw")

\* the validateCode call of the turn fails
ValidateFailedStep ==
    /\ pc = "validate"
    /\ pc' # "validate"
    /\ \E i \in 1..Len(trace') : trace'[i] = Did("validateCode threw")

IsError(entry) == entry.type = "error"

\* C10: a failed research call yields the fixed placeholder and no sources,
\* logs no error, and conduct is called next; a failed validateCode call
\* yields the fixed placeholder as the report, logs no error, and the turn
\* ends with its assistant message appended and its proposal pending.
C10_ResearchAndValidationDegrade ==
    [][/\ ResearchFailedStep =>
            /\ pc' = "conduct"
            /\ isProcessing'
            /\ frame'.augmentedPrompt =
                   [findings |-> ResearchPlaceholder, request |-> frame.inputValue]
            /\ researchSources' = researchSources
            /\ activity' = Append(activity, conductStart)
            /\ trace'[Len(trace')] = Did("call conduct")
       /\ ValidateFailedStep =>
            /\ pc' = "idle"
            /\ validationReport' = ValidationPlaceholder
            /\ SelectSeq(SubSeq(activity', Len(activity) + 1, Len(activity')), IsError) = <<>>
            /\ messages' = Append(messages, AssistantMsg(frame.response, frame.proposal))
            /\ HasPendingChange(messages'[Len(messages')])
            /\ pendingProposal' = frame.proposal]_vars

\* a turn whose research and validation both failed has ended with its
\* proposal pending and the placeholder as the report
C10_Witness ==
    /\ pc = "idle"
    /\ TraceHas("research threw")
    /\ TraceHas("validateCode threw")
    /\ pendingProposal # Null
    /\ validationReport = ValidationPlaceholder
    /\ IsAssistantMsg(messages[Len(messages)])

-----------------------------------------------------------------------------
(* C11 *)

\* the response carries no proposal: it has no fenced json block, or its
\* first block does not parse, or that block's action is not "propose_code"
NoProposalResponse(response) ==
    \/ response.blocks = <<>>
    \/ response.blocks[1].json = "invalid"
    \/ response.blocks[1].action # "propose_code"

IsReturned(event) == event.ev = "conduct returned"

\* the response conduct returned in the turn whose history is tr
ReturnedResponse(tr) == tr[CHOOSE i \in 1..Len(tr) : IsReturned(tr[i])].response

\* conduct returns a response that carries no proposal
NoProposalStep == ConductResolvedStep /\ NoProposalResponse(ReturnedResponse(trace'))

\* What C11 says of a response without a proposal, given the content the
\* assistant message is to carry for the response.
C11_Step(Content(_)) ==
    NoProposalStep =>
        /\ pc' = "idle"
        /\ messages' = Append(messages, [role |-> "assistant",
                                         content |-> Content(ReturnedResponse(trace'))])
        /\ activity' = activity
        /\ \A i \in turnStart.activity + 1 .. Len(activity') : ~IsError(activity'[i])
        /\ pendingProposal' = pendingProposal

RawText(response) == response

RawTextOrPlaceholder(response) ==
    IF response.empty THEN [text |-> EmptyResponsePlaceholder] ELSE response

\* C11 as stated: a response with no fenced json block, or whose first block
\* does not parse, or whose action is not "propose_code", ends the turn with
\* an assistant message that carries the raw response text and no proposal,
\* with no error entry in the log and the pending proposal unchanged.
C11_NoProposalKeepsRawText == [][C11_Step(RawText)]_vars

\* C11, amended: as C11, but the assistant message carries the raw response
\* text only when that text is not empty; for an empty response it carries
\* the fixed placeholder "Cluster returned empty response.".
C11_NoProposalKeepsTextOrPlaceholder == [][C11_Step(RawTextOrPlaceholder)]_vars

\* an empty response has ended a turn that began with a proposal pending:
\* the placeholder is the last message and the proposal is still pending
C11_Witness ==
    /\ pc = "idle"
    /\ \E i \in 1..Len(trace) : trace[i] = Returned(EmptyResponse)
    /\ messages[Len(messages)] = [role |-> "assistant",
                                  content |-> [text |-> EmptyResponsePlaceholder]]
    /\ turnStart.pendingProposal # Null
    /\ pendingProposal = turnStart.pendingProposal

-----------------------------------------------------------------------------
(* C12 *)

\* empty or whitespace-only
Blank(input) == \A i \in 1..Len(input) : IsWhitespace(input[i])

\* handleSendMessage is called: it turns the submission away or starts a turn
SubmitStep == rejected' # rejected \/ turns' # turns

\* C12: a call of handleSendMessage while the input is empty or holds only
\* whitespace appends no message and no log entry, issues no gateway call
\* (no turn starts, and the turn in flight, if any, is where it was), and
\* leaves isProcessing, the validation report, the pending proposal and the
\* research sources as they were.
C12_BlankSubmissionIsNoOp ==
    [][(SubmitStep /\ Blank(inputValue)) =>
          UNCHANGED << messages, activity, pc, frame, trace, turns, isProcessing,
                       validationReport, pendingProposal, researchSources >>]_vars

\* no turn is in flight and a report and a proposal are on display when a
\* whitespace-only submission is turned away
C12_Witness ==
    /\ rejected # <<>>
    /\ rejected[Len(rejected)] = [inputValue |-> <<" ">>, isProcessing |-> FALSE]
    /\ inputValue = <<" ">>
    /\ pc = "idle"
    /\ pendingProposal # Null
    /\ validationReport # NullReport
    /\ researchSources # <<>>

-----------------------------------------------------------------------------
(* C13 *)

\* C13: at most one turn is in flight.  A call of handleSendMessage while
\* isProcessing is true appends no message, issues no gateway call and leaves
\* the turn in flight where it was; a turn starts only when none is in
\* flight; and isProcessing is true exactly while a turn is in flight, so
\* every step of a turn is a step of the one turn in flight.
C13_OneTurnInFlight ==
    [][/\ (SubmitStep /\ isProcessing) =>
              UNCHANGED << messages, activity, pc, frame, trace, turnStart, turns >>
       /\ turns' # turns => (pc = "idle" /\ ~isProcessing /\ pc' # "idle" /\ isProcessing')
       /\ isProcessing <=> pc # "idle"
       /\ isProcessing' <=> pc' # "idle"
       /\ (pc # "idle" /\ trace' # trace) =>
              /\ turns' = turns
              /\ turnStart' = turnStart
              /\ Len(trace') > Len(trace)
              /\ SubSeq(trace', 1, Len(trace)) = trace]_vars

\* a submission of a non-blank input was turned away while the conduct call
\* of a turn was pending, and that turn has since ended with its own
\* assistant message as the second and last message of the turn
C13_Witness ==
    /\ \E i \in 1..Len(rejected) :
           /\ rejected[i].isProcessing
           /\ ~Blank(rejected[i].inputValue)
    /\ pc = "idle"
    /\ TraceHas("conduct resolved")
    /\ Len(TurnMessages) = 2
    /\ IsUserMsg(TurnMessages[1])
    /\ IsAssistantMsg(TurnMessages[2])

-----------------------------------------------------------------------------
(* C14 *)

\* some project that exists before the step is gone after it, or its files
\* are not what they were
FilesChanged ==
    \E i \in 1..Len(projects) :
        \/ i > Len(projects')
        \/ projects'[i].id # projects[i].id
        \/ projects'[i].files # projects[i].files

\* approveProposal ran to its end: the pending proposal is cleared and the
\* system message "Successfully integrated ..." is appended
ApprovedStep ==
    /\ pendingProposal # Null
    /\ pendingProposal' = Null
    /\ Len(messages') = Len(messages) + 1
    /\ IsSystemMsg(messages'[Len(messages')])

\* C14: the files of an existing project change only in a step of
\* approveProposal; submitting, every step of a turn, discarding, changing
\* the configuration, creating or selecting a project and copying leave the
\* files of every existing project as they were.
C14_FilesChangeOnlyByApprove == [][FilesChanged => ApprovedStep]_vars

\* a file was approved into the first project; since then a second project
\* was created, the configuration was changed and the first project was
\* selected again, and the file is still the only file there is
C14_Witness ==
    /\ Len(projects) = 2
    /\ Len(projects[1].files) = 1
    /\ projects[2].files = <<>>
    /\ activeProjectId = projects[1].id
    /\ configChanges = 1
    /\ pendingProposal = Null

-----------------------------------------------------------------------------
(* C15 *)

\* a step of handleSendMessage: the submission or the settling of a gateway call
TurnStep == trace' # trace

\* handleNewProject created a project
NewProjectStep == Len(projects') = Len(projects) + 1

\* copyToClipboard ran
CopyStep == copies' = copies + 1

\* C15 as stated: only the orchestrator writes to the activity log; a step
\* that is not a step of handleSendMessage or of approveProposal (creating a
\* project and copying to the clipboard in particular) leaves the log as it
\* was.
C15_OnlyOrchestratorLogs ==
    [][activity' # activity => (TurnStep \/ ApprovedStep)]_vars

\* C15, amended: the log is written by the steps of handleSendMessage, by
\* approveProposal, by handleNewProject (one "Conductor" success entry for
\* the project created) and by copyToClipboard (one "System" info entry);
\* every other step (typing, selecting a project, changing the
\* configuration, discarding, a submission turned away) leaves the log as it
\* was.
C15_WhoLogs ==
    [][activity' # activity =>
          \/ TurnStep
          \/ ApprovedStep
          \/ /\ NewProjectStep
             /\ activity' = Append(activity, LogEntry("Conductor", "success",
                                                      "Project workspace initialized"))
          \/ /\ CopyStep
             /\ activity' = Append(activity, LogEntry("System", "info",
                                       "Source code copied to clipboard successfully."))]_vars

\* the log ends with the entry of a copy, after the entry of a project
\* creation, the entries of a turn and the entry of an approval; the typing
\* since the copy has added nothing
C15_Witness ==
    /\ Len(activity) >= 3
    /\ activity[1] = LogEntry("Conductor", "success", "Project workspace initialized")
    /\ activity[Len(activity)] = LogEntry("System", "info",
                                          "Source code copied to clipboard successfully.")
    /\ activity[Len(activity) - 1] = LogEntry("Validator", "success", "Persisted to workspace.")
    /\ inputValue = <<"h", "i">>
    /\ pc = "idle"

-----------------------------------------------------------------------------
(* C16 *)

\* the sequence before is an initial part of the sequence after
IsPrefix(before, after) ==
    /\ Len(before) <= Len(after)
    /\ SubSeq(after, 1, Len(before)) = before

\* C16: the activity log is append-only.  No step removes, reorders or
\* rewrites an entry: the log before a step is a prefix of the log after it,
\* and so every earlier log is a prefix of the current one.
C16_LogIsAppendOnly == [][IsPrefix(activity, activity')]_vars

\* the log holds the entries of a project creation, of a turn with research
\* and validation, of an approval and of a copy, in that order
C16_Witness ==
    /\ Len(activity) = 8
    /\ activity[1].message = "Project workspace initialized"
    /\ activity[2] = researchStart
    /\ activity[6] = artifactCheckComplete
    /\ activity[7].message = "Persisted to workspace."
    /\ activity[8].agent = "System"

-----------------------------------------------------------------------------
(* C17 *)

\* C17: the chat is append-only.  No step (of a turn that succeeds or
\* fails, an approval, a discard, the selection or creation of a project)
\* removes, reorders or rewrites a message: the messages before a step are a
\* prefix of the messages after it.
C17_ChatIsAppendOnly == [][IsPrefix(messages, messages')]_vars

\* the chat of a turn and an approval made in the first project is still
\* there after a second project was created and the first selected again
C17_Witness ==
    /\ Len(projects) = 2
    /\ activeProjectId = projects[1].id
    /\ Len(messages) = 3
    /\ IsUserMsg(messages[1])
    /\ IsAssistantMsg(messages[2])
    /\ IsSystemMsg(messages[3])
    /\ projects[1].files # <<>>
    /\ projects[2].files = <<>>

-----------------------------------------------------------------------------
(* C18 *)

\* C18: no project holds two files of the same name.
C18_FileNamesAreUnique ==
    \A p \in 1..Len(projects) :
        \A i, j \in 1..Len(projects[p].files) :
            projects[p].files[i].name = projects[p].files[j].name => i = j

\* two approvals have put two files of different names into one project
C18_Witness ==
    /\ Len(projects) = 1
    /\ Len(projects[1].files) = 2
    /\ projects[1].files[1].name # projects[1].files[2].name
    /\ Len(SelectSeq(messages, IsSystemMsg)) = 2

-----------------------------------------------------------------------------
(* C19 *)

\* The workflow step an event of the history belongs to, for the events that
\* append a chat message or a log entry (0 for every other event): the user
\* message, the two entries of research, the entry of conduct, the two error
\* entries of a failed conduct, the two entries of validation, the assistant
\* message.
StepOf(event) ==
    CASE event = Did("userMsg") -> 1
      [] event = Logged(researchStart) -> 2
      [] event = Logged(researchSuccess) -> 3
      [] event = Logged(conductStart) -> 4
      [] event = Logged(conductCatch[1]) -> 5
      [] event = Logged(handleSendMessageCatch[1]) -> 6
      [] event = Logged(validateCodeStart) -> 7
      [] event = Logged(artifactCheckComplete) -> 8
      [] event = Did("assistantMsg") -> 9
      [] OTHER -> 0

IsAppend(event) == StepOf(event) > 0
IsLogEvent(event) == event.ev = "log"
IsMsgEvent(event) == event \in { Did("userMsg"), Did("assistantMsg") }

\* the entries handleSendMessage and the gateway write
TurnEntries ==
    { researchStart, researchSuccess, conductStart, conductCatch[1],
      handleSendMessageCatch[1], validateCodeStart, artifactCheckComplete }
IsTurnEntry(entry) == entry \in TurnEntries
IsTurnMsg(message) == ~IsSystemMsg(message)

\* C19: what a turn appends, it appends in the order of the workflow steps.
\* The appends of the turn, in program order, are strictly increasing in
\* step: the user message first; then, if research fires, the "Research
\* Lead" info entry, with the researcher's success entry after it; then the
\* "Conductor" info entry; then the "Validator" info entry before
\* the "Validator" success entry; the assistant message after all of them.
\* The log since the submission holds the turn's entries in that order, and
\* the chat since the submission holds the turn's messages in that order.
C19_AppendsFollowStepOrder ==
    turnStart # NoTurn =>
        LET appends == SelectSeq(trace, IsAppend)
            logged == SelectSeq(appends, IsLogEvent)
            said == SelectSeq(appends, IsMsgEvent)
            turnLog == SelectSeq(TurnLog, IsTurnEntry)
            turnMsgs == SelectSeq(TurnMessages, IsTurnMsg)
        IN  /\ Len(appends) >= 2
            /\ \A i \in 1..(Len(appends) - 1) :
                   StepOf(appends[i]) < StepOf(appends[i + 1])
            /\ appends[1] = Did("userMsg")
            /\ appends[2] \in { Logged(researchStart), Logged(conductStart) }
            /\ \A i \in 1..Len(appends) :
                   /\ appends[i] = Logged(researchSuccess) =>
                          appends[i - 1] = Logged(researchStart)
                   /\ appends[i] = Logged(artifactCheckComplete) =>
                          appends[i - 1] = Logged(validateCodeStart)
                   /\ appends[i] = Logged(validateCodeStart) =>
                          appends[i - 1] = Logged(conductStart)
            /\ Len(logged) = Len(turnLog)
            /\ \A i \in 1..Len(logged) : logged[i].entry = turnLog[i]
            /\ Len(said) = Len(turnMsgs)
            /\ \A i \in 1..Len(said) :
                   turnMsgs[i].role = IF said[i] = Did("userMsg") THEN "user" ELSE "assistant"
            /\ (pc = "idle" /\ ~TraceHas("conduct threw")) =>
                   appends[Len(appends)] = Did("assistantMsg")

\* a turn with research and a validated proposal has ended; while it was in
\* flight, the proposal of the turn before it was approved, so that approval's
\* entry and message lie among those of the turn
C19_Witness ==
    /\ pc = "idle"
    /\ \E i \in 1..Len(trace) : trace[i] = Logged(researchSuccess)
    /\ \E i \in 1..Len(trace) : trace[i] = Logged(artifactCheckComplete)
    /\ Len(TurnLog) = 6
    /\ Len(TurnMessages) = 3
    /\ \E i \in 1..Len(TurnMessages) : IsSystemMsg(TurnMessages[i])

-----------------------------------------------------------------------------
(* C20 *)

\* approveProposal is called with a proposal pending: it runs to its end or
\* it throws
ApproveCalledStep == pendingProposal # Null /\ (ApprovedStep \/ thrown' # thrown)

\* C20 as stated: approveProposal with a pending proposal appends exactly one
\* system message, clears the pending proposal and the validation report,
\* and appends exactly one log entry, of severity success.
C20_ApproveAppendsAndClears ==
    [][ApproveCalledStep =>
          /\ Len(messages') = Len(messages) + 1
          /\ IsPrefix(messages, messages')
          /\ IsSystemMsg(messages'[Len(messages')])
          /\ pendingProposal' = Null
          /\ validationReport' = NullReport
          /\ Len(activity') = Len(activity) + 1
          /\ IsPrefix(activity, activity')
          /\ activity'[Len(activity')].type = "success"]_vars

-----------------------------------------------------------------------------
(* C21 *)

\* handleSendMessage calls conduct
ConductCallStep == pc # "conduct" /\ pc' = "conduct"

\* C21: the file-name summary a turn sends to conduct is the summary of the
\* files the active project had when the turn was submitted.  The summary is
\* computed from those files in the step that accepts the submission, no
\* later step of the turn changes it (whatever approveProposal does to the
\* project meanwhile), and it is what conduct is called with.
C21_SummaryIsOfSubmissionTime ==
    [][/\ turns' # turns =>
              frame'.filesContext = FilesContext(ActiveProject.files)
       /\ (pc # "idle" /\ pc' # "idle") =>
              frame'.filesContext = frame.filesContext
       /\ ConductCallStep =>
              frame'.contextSummary = frame'.filesContext]_vars

\* conduct has been called, after research, with a summary that is no
\* longer the summary of the project's files: a proposal was approved into
\* the project while the research call was pending
C21_Witness ==
    /\ pc = "conduct"
    /\ TraceHas("research returned")
    /\ frame.contextSummary = NoFilesYet
    /\ ActiveProject.files # <<>>
    /\ \E i \in 1..Len(TurnMessages) : IsSystemMsg(TurnMessages[i])

-----------------------------------------------------------------------------
(* C22 *)

IsProjectCreation(entry) == entry.message = "Project workspace initialized"

\* how many projects there were when the last turn was submitted: each
\* creation has left one entry in the log
ProjectsAtSubmission ==
    Len(SelectSeq(SubSeq(activity, 1, turnStart.activity), IsProjectCreation))

\* the pending proposal is the proposal of the last turn
PendingIsOfLastTurn ==
    /\ pc = "idle"
    /\ TraceHas("setPendingProposal")
    /\ pendingProposal # Null

\* C22 as stated, for the turns submitted while there was one project only
\* (the project that was active at submission is then the first project): the
\* approval of the proposal of such a turn writes into no project but the
\* first, whatever was created or selected since the submission.
C22_MergedIntoSubmissionProject ==
    [][(ApprovedStep /\ PendingIsOfLastTurn /\ ProjectsAtSubmission = 1) =>
          \A i \in 1..Len(projects) :
              projects'[i].files # projects[i].files => i = 1]_vars

-----------------------------------------------------------------------------
(* C23 *)

\* what validateCode can hand back: a report of the model or the placeholder
\* of its catch
ReturnedReports == Reports \cup { ValidationPlaceholder }

\* C23 as stated: whenever a proposal is pending and no turn is in flight,
\* the validation report is a report validateCode returned; it is never
\* null.
C23_PendingHasItsReport ==
    (pendingProposal # Null /\ pc = "idle") => validationReport \in ReturnedReports

-----------------------------------------------------------------------------
(* C24 *)

\* a pending gateway call settles: it resolves or it rejects
Settle ==
    \/ \E text \in ResearchTexts, sources \in SourceLists : researchResolved(text, sources)
    \/ researchRejected
    \/ \E response \in Responses : conductResolved(response)
    \/ conductRejected
    \/ \E report \in Reports : validateCodeResolved(report)
    \/ validateCodeRejected

\* the program under the assumption that every gateway call eventually
\* returns or fails
LiveSpec == Spec /\ WF_vars(Settle)

\* C24: every accepted turn eventually ends with isProcessing reset to
\* false, whichever of its gateway calls fail; once it has ended, the guard
\* of handleSendMessage no longer turns a non-blank submission away.
C24_TurnEventuallyEnds ==
    /\ (pc # "idle") ~> (pc = "idle" /\ ~isProcessing)
    /\ [](pc = "idle" => \A s \in Inputs : Rejects(s, isProcessing) <=> Blank(s))

\* a turn in which research and validateCode both failed has ended with
\* isProcessing false, and so has, before it, a turn whose conduct call
\* failed
C24_Witness ==
    /\ pc = "idle"
    /\ ~isProcessing
    /\ turns = 2
    /\ TraceHas("research threw")
    /\ TraceHas("validateCode threw")
    /\ \E i \in 1..Len(activity) : IsConductorError(activity[i])

-----------------------------------------------------------------------------
(* C25 *)

CarriesChange(message) == IsAssistantMsg(message) /\ HasPendingChange(message)

\* the pendingChange of the most recent assistant message of chat that
\* carries one, or Null where no message carries one
LatestChange(chat) ==
    LET carrying == SelectSeq(chat, CarriesChange)
    IN  IF carrying = <<>> THEN Null ELSE carrying[Len(carrying)].pendingChange

\* C25: no step leads to a state where a proposal is pending that is not the
\* pendingChange of the most recent assistant message carrying one; as no
\* proposal is pending initially, a pending proposal equals that
\* pendingChange in every reachable state.
C25_PendingIsLatestChange ==
    [][pendingProposal' # Null => pendingProposal' = LatestChange(messages')]_vars

\* two turns have each attached a proposal to their assistant message, the
\* two proposals differ, and the second is the one pending
C25_Witness ==
    /\ Len(SelectSeq(messages, CarriesChange)) = 2
    /\ SelectSeq(messages, CarriesChange)[1].pendingChange # pendingProposal
    /\ pendingProposal # Null
    /\ pendingProposal = LatestChange(messages)

====
